---- MODULE Spec2Model ----
(***************************************************************************)
(* Enrollment engine, grade lifecycle and re-evaluation workflow of the    *)
(* university records portal (src/app.py, src/models.py).                  *)
(*                                                                         *)
(* The tables are bags of rows: the surrogate primary key of a row is not  *)
(* read by any handler modelled here, so a row is its column values and a  *)
(* table may hold the same values twice unless a constraint forbids it.    *)
(* Re-evaluation requests are addressed by id, so that table is a sequence *)
(* and a request's id is its index.                                        *)
(***************************************************************************)
EXTENDS Integers, Sequences, FiniteSets, Bags, TLC

\* ------------------------------------------------------------- bounds
\* longest subject_ids list of an enroll request
MaxSubjectIds == 2
\* most rows of the reevaluation_requests table
MaxRequests == 1

\* ------------------------------------------------------------- data
Students == {"s1", "s2"}
Faculty == {"f1", "f2"}
\* Subject.faculty_id is nullable
NoFaculty == "none"

\* The subjects table. create_subject is the only writer and there is no
\* update or delete endpoint, so the catalog is fixed through every behaviour.
Catalog ==
  << [credits |-> 25, slot |-> "A1", faculty_id |-> "f1"],
     [credits |-> 2,  slot |-> "B1", faculty_id |-> NoFaculty],
     [credits |-> 3,  slot |-> "B1", faculty_id |-> "f2"] >>

SubjectIds == DOMAIN Catalog
\* an id that resolves to no subject
UnknownSubjectId == Len(Catalog) + 1
SubjectIdInputs == SubjectIds \cup {UnknownSubjectId}

\* marks sent by the faculty client
Marks == {39, 40}

\* marks of concurrent edits: 40 and 41 fall in one band, 39 in the band below
EditMarks == {39, 40, 41}

\* The (student, subject) pairs re-evaluation is requested for. Students are
\* interchangeable, and subject 1 is one a grade can exist for, so one pair
\* covers a request with and without a grade, beside grades it does not name.
ReevaluationInputs == {<<"s1", 1>>}

\* status values sent by the admin client; the handler stores whatever it gets
StatusInputs == {"pending", "approved", "denied"}

CreditLimit == 27

\* request-handling threads of the server
Sessions == {"w1", "w2"}

VARIABLES
  subjects,      \* subjects table: id -> row
  enrollments,   \* enrollments table: bag of [student_id, subject_id, faculty_id]
  grades,        \* grades table: bag of [student_id, subject_id, marks, grade, is_final, reevaluation_allowed]
  requests,      \* reevaluation_requests table: sequence of [student_id, subject_id, status]
  response,      \* the response most recently sent to a client
  pc,            \* per session: "idle", or the handler waiting at its db.session.commit()
  to_create,     \* per session: the Enrollment rows added to its db.session
  grade_write    \* per session: the Grade insert or update pending in its db.session

vars == <<subjects, enrollments, grades, requests, response, pc, to_create, grade_write>>

sessionVars == <<pc, to_create, grade_write>>

\* ------------------------------------------------------------- helpers
\* sum(s.credits for s in ...) over distinct subject rows
RECURSIVE SumCredits(_, _)
SumCredits(subs, ids) ==
  IF ids = {} THEN 0
  ELSE LET i == CHOOSE x \in ids : TRUE
       IN subs[i].credits + SumCredits(subs, ids \ {i})

\* primary keys 1..n in order
RECURSIVE IdSeq(_)
IdSeq(n) == IF n = 0 THEN << >> ELSE Append(IdSeq(n - 1), n)

Range(s) == {s[k] : k \in DOMAIN s}

\* what .first() gives when no row matches
NoRow == [student_id |-> "none"]

NoWrite ==
  [kind |-> "none", student_id |-> "none", subject_id |-> 0, marks |-> 0,
   grade |-> "", loaded_marks |-> 0, loaded_grade |-> ""]

\* ------------------------------------------------------------- enroll_subject
\* Subject.query.filter(Subject.id.in_(subject_ids)).all(): each matching row
\* once, whatever the number of times its id is listed
RequestedSubjects(subs, subject_ids) ==
  SelectSeq(IdSeq(Len(subs)), LAMBDA i : i \in Range(subject_ids))

ExistingEnrollments(enr, st) == {e \in BagToSet(enr) : e.student_id = st}

ExistingSubjectIds(enr, st) == {e.subject_id : e \in ExistingEnrollments(enr, st)}

ExistingSlots(subs, enr, st) ==
  {subs[e.subject_id].slot : e \in ExistingEnrollments(enr, st)}

\* the requested subjects the student is not enrolled in yet
SkipEnrolled(requested, existing_subject_ids) ==
  SelectSeq(requested, LAMBDA i : i \notin existing_subject_ids)

NewSlots(subs, new_ids) ==
  [k \in DOMAIN new_ids |-> subs[new_ids[k]].slot]

TotalCredits(subs, existing_subject_ids, new_ids) ==
  SumCredits(subs, existing_subject_ids \cup Range(new_ids))

OverCreditLimitOffByOne(total_credits) == total_credits > CreditLimit + 1

OverCreditLimit(total_credits) == total_credits > CreditLimit

ClashWithExisting(new_slots, existing_slots) ==
  \E k \in DOMAIN new_slots : new_slots[k] \in existing_slots

ClashAmongNewNotChecked(new_slots) == FALSE

ClashAmongNew(new_slots) == Len(new_slots) # Cardinality(Range(new_slots))

\* the checks of the handler in their order; error "none" when all pass
EnrollChecks(subs, enr, st, subject_ids) ==
  LET requested == RequestedSubjects(subs, subject_ids)
      existing_ids == ExistingSubjectIds(enr, st)
      new_ids == SkipEnrolled(requested, existing_ids)
      new_slots == NewSlots(subs, new_ids)
  IN  IF subject_ids = << >>
        THEN [error |-> "BadRequest", new_ids |-> << >>]
      ELSE IF Len(requested) # Len(subject_ids)
        THEN [error |-> "NotFound", new_ids |-> << >>]
      ELSE IF OverCreditLimit(TotalCredits(subs, existing_ids, new_ids))
        THEN [error |-> "CreditLimitExceeded", new_ids |-> << >>]
      ELSE IF ClashWithExisting(new_slots, ExistingSlots(subs, enr, st))
        THEN [error |-> "SlotClash", new_ids |-> << >>]
      ELSE IF ClashAmongNew(new_slots)
        THEN [error |-> "SlotClash", new_ids |-> << >>]
      ELSE [error |-> "none", new_ids |-> new_ids]

\* the Enrollment objects added to the session, faculty copied from the subject
NewEnrollments(subs, st, new_ids) ==
  [k \in DOMAIN new_ids |->
     [student_id |-> st, subject_id |-> new_ids[k],
      faculty_id |-> subs[new_ids[k]].faculty_id]]

UniqueEnrollmentNotEnforced(table, row) == TRUE

\* UniqueConstraint('student_id', 'subject_id', name='unique_enrollment')
UniqueEnrollment(table, row) ==
  \A e \in BagToSet(table) :
     ~(e.student_id = row.student_id /\ e.subject_id = row.subject_id)

\* the INSERTs of one flush, in order; stops at the first constraint violation
RECURSIVE FlushEnrollments(_, _)
FlushEnrollments(table, rows) ==
  IF rows = << >> THEN [ok |-> TRUE, table |-> table]
  ELSE IF ~UniqueEnrollment(table, Head(rows)) THEN [ok |-> FALSE, table |-> table]
  ELSE FlushEnrollments(table (+) SetToBag({Head(rows)}), Tail(rows))

RollbackKeepsFlushed(before, flushed) == flushed

\* what the transaction leaves when a flush raised IntegrityError
Rollback(before, flushed) == before

\* db.session.commit() of enroll_subject and its except branch
CommitEnrollments(table, rows) ==
  LET f == FlushEnrollments(table, rows)
  IN  IF f.ok THEN [response |-> "Enrolled", enrollments |-> f.table]
      ELSE [response |-> "ConflictError", enrollments |-> Rollback(table, f.table)]

\* the whole handler run without interruption
EnrollOutcome(subs, enr, st, subject_ids) ==
  LET chk == EnrollChecks(subs, enr, st, subject_ids)
  IN  IF chk.error # "none" THEN [response |-> chk.error, enrollments |-> enr]
      ELSE CommitEnrollments(enr, NewEnrollments(subs, st, chk.new_ids))

enroll_subject(st, subject_ids) ==
  LET out == EnrollOutcome(subjects, enrollments, st, subject_ids)
  IN  /\ enrollments' = out.enrollments
      /\ response' = out.response
      /\ UNCHANGED <<subjects, grades, requests, sessionVars>>

\* the handler up to its commit, in session w
enroll_begin(w, st, subject_ids) ==
  LET chk == EnrollChecks(subjects, enrollments, st, subject_ids)
  IN  /\ pc[w] = "idle"
      /\ IF chk.error # "none"
           THEN /\ response' = chk.error
                /\ UNCHANGED <<pc, to_create>>
         ELSE /\ pc' = [pc EXCEPT ![w] = "enroll_commit"]
              /\ to_create' = [to_create EXCEPT ![w] = NewEnrollments(subjects, st, chk.new_ids)]
              /\ UNCHANGED response
      /\ UNCHANGED <<subjects, enrollments, grades, requests, grade_write>>

\* the commit of session w and the response after it
enroll_commit(w) ==
  LET out == CommitEnrollments(enrollments, to_create[w])
  IN  /\ pc[w] = "enroll_commit"
      /\ enrollments' = out.enrollments
      /\ response' = out.response
      /\ pc' = [pc EXCEPT ![w] = "idle"]
      /\ to_create' = [to_create EXCEPT ![w] = << >>]
      /\ UNCHANGED <<subjects, grades, requests, grade_write>>

\* ------------------------------------------------------------- add_grade
calculate_grade(marks) ==
  IF marks >= 90 THEN "A+"
  ELSE IF marks >= 80 THEN "A"
  ELSE IF marks >= 70 THEN "B+"
  ELSE IF marks >= 60 THEN "B"
  ELSE IF marks >= 50 THEN "C"
  ELSE IF marks >= 40 THEN "D"
  ELSE "F"

TeachesStudentAnyFaculty(enr, f, st, sub) ==
  \E e \in BagToSet(enr) : e.student_id = st /\ e.subject_id = sub

\* Enrollment.query.filter_by(student_id, subject_id, faculty_id).first()
TeachesStudent(enr, f, st, sub) ==
  \E e \in BagToSet(enr) :
     e.student_id = st /\ e.subject_id = sub /\ e.faculty_id = f

GradeRows(table, st, sub) ==
  {g \in BagToSet(table) : g.student_id = st /\ g.subject_id = sub}

\* Grade.query.filter_by(student_id, subject_id).first()
FirstGrade(table, st, sub) ==
  IF GradeRows(table, st, sub) = {} THEN NoRow
  ELSE CHOOSE g \in GradeRows(table, st, sub) : TRUE

GradeLockedIgnoresReevaluation(grade) == grade.is_final

GradeLocked(grade) == ~grade.reevaluation_allowed /\ grade.is_final

NewGradeReevaluationAllowed(st, sub, marks, letter) ==
  [student_id |-> st, subject_id |-> sub, marks |-> marks, grade |-> letter,
   is_final |-> FALSE, reevaluation_allowed |-> TRUE]

\* Grade(...) with the column defaults of is_final and reevaluation_allowed
NewGrade(st, sub, marks, letter) ==
  [student_id |-> st, subject_id |-> sub, marks |-> marks, grade |-> letter,
   is_final |-> FALSE, reevaluation_allowed |-> FALSE]

\* UniqueConstraint('student_id', 'subject_id', name='unique_grade')
UniqueGrade(table, row) == GradeRows(table, row.student_id, row.subject_id) = {}

ReplaceRow(table, old, new) == (table (-) SetToBag({old})) (+) SetToBag({new})

\* the checks of the handler in their order
GradeChecks(enr, grd, f, st, sub) ==
  IF ~TeachesStudent(enr, f, st, sub) THEN "Forbidden"
  ELSE IF FirstGrade(grd, st, sub) # NoRow /\ GradeLocked(FirstGrade(grd, st, sub))
    THEN "GradeLocked"
  ELSE "none"

\* what the handler leaves in its session: new values on the loaded Grade, or
\* a Grade to insert
PendingGradeWrite(grade, st, sub, marks) ==
  [kind |-> IF grade # NoRow THEN "update" ELSE "insert",
   student_id |-> st, subject_id |-> sub,
   marks |-> marks, grade |-> calculate_grade(marks),
   loaded_marks |-> IF grade # NoRow THEN grade.marks ELSE marks,
   loaded_grade |-> IF grade # NoRow THEN grade.grade ELSE calculate_grade(marks)]

\* an update that also clears reevaluation_allowed on the row it writes
CommitGradeWriteConsumesUnlock(grd, wr) ==
  LET row == NewGrade(wr.student_id, wr.subject_id, wr.marks, wr.grade)
      cur == FirstGrade(grd, wr.student_id, wr.subject_id)
  IN  IF wr.kind = "insert"
        THEN IF UniqueGrade(grd, row)
               THEN [response |-> "GradeAdded", grades |-> grd (+) SetToBag({row})]
             ELSE [response |-> "InternalServerError", grades |-> grd]
      ELSE [response |-> "GradeAdded",
            grades |-> ReplaceRow(grd, cur,
               [cur EXCEPT !.marks = wr.marks, !.grade = wr.grade,
                           !.reevaluation_allowed = FALSE])]

\* db.session.commit() of add_grade. An insert that breaks unique_grade raises
\* IntegrityError, which the handler does not catch. An update writes the
\* columns whose value differs from the loaded one to the row as it is now.
CommitGradeWrite(grd, wr) ==
  LET row == NewGrade(wr.student_id, wr.subject_id, wr.marks, wr.grade)
      cur == FirstGrade(grd, wr.student_id, wr.subject_id)
  IN  IF wr.kind = "insert"
        THEN IF UniqueGrade(grd, row)
               THEN [response |-> "GradeAdded", grades |-> grd (+) SetToBag({row})]
             ELSE [response |-> "InternalServerError", grades |-> grd]
      ELSE [response |-> "GradeAdded",
            grades |-> ReplaceRow(grd, cur,
               [cur EXCEPT
                  !.marks = IF wr.marks # wr.loaded_marks THEN wr.marks ELSE @,
                  !.grade = IF wr.grade # wr.loaded_grade THEN wr.grade ELSE @])]

\* the whole handler run without interruption
GradeOutcome(enr, grd, f, st, sub, marks) ==
  IF GradeChecks(enr, grd, f, st, sub) # "none"
    THEN [response |-> GradeChecks(enr, grd, f, st, sub), grades |-> grd]
  ELSE CommitGradeWrite(grd, PendingGradeWrite(FirstGrade(grd, st, sub), st, sub, marks))

add_grade(f, st, sub, marks) ==
  LET out == GradeOutcome(enrollments, grades, f, st, sub, marks)
  IN  /\ grades' = out.grades
      /\ response' = out.response
      /\ UNCHANGED <<subjects, enrollments, requests, sessionVars>>

\* the handler up to its commit, in session w
grade_begin(w, f, st, sub, marks) ==
  LET err == GradeChecks(enrollments, grades, f, st, sub)
  IN  /\ pc[w] = "idle"
      /\ IF err # "none"
           THEN /\ response' = err
                /\ UNCHANGED <<pc, grade_write>>
         ELSE /\ pc' = [pc EXCEPT ![w] = "grade_commit"]
              /\ grade_write' = [grade_write EXCEPT ![w] =
                    PendingGradeWrite(FirstGrade(grades, st, sub), st, sub, marks)]
              /\ UNCHANGED response
      /\ UNCHANGED <<subjects, enrollments, grades, requests, to_create>>

\* the commit of session w and the response after it
grade_commit(w) ==
  LET out == CommitGradeWrite(grades, grade_write[w])
  IN  /\ pc[w] = "grade_commit"
      /\ grades' = out.grades
      /\ response' = out.response
      /\ pc' = [pc EXCEPT ![w] = "idle"]
      /\ grade_write' = [grade_write EXCEPT ![w] = NoWrite]
      /\ UNCHANGED <<subjects, enrollments, requests, to_create>>

\* ------------------------------------------------------------- finalize_grades
GradesOfAnySubject(table, sub) == BagToSet(table)

\* Grade.query.filter_by(subject_id=subject_id).all()
GradesOfSubject(table, sub) == {g \in BagToSet(table) : g.subject_id = sub}

Finalized(grade) == [grade EXCEPT !.is_final = TRUE, !.reevaluation_allowed = FALSE]

\* the table with every row among `rows` finalized, multiplicities kept
RECURSIVE FinalizeRows(_, _)
FinalizeRows(table, rows) ==
  IF rows = {} THEN table
  ELSE LET g == CHOOSE x \in rows : TRUE
           old == [x \in {g} |-> CopiesIn(g, table)]
           new == [x \in {Finalized(g)} |-> CopiesIn(g, table)]
       IN FinalizeRows((table (-) old) (+) new, rows \ {g})

FinalizeOutcome(grd, sub) ==
  [response |-> "Finalized", grades |-> FinalizeRows(grd, GradesOfSubject(grd, sub))]

\* f is any user with the faculty role: the handler never reads who it is
finalize_grades(f, sub) ==
  LET out == FinalizeOutcome(grades, sub)
  IN  /\ grades' = out.grades
      /\ response' = out.response
      /\ UNCHANGED <<subjects, enrollments, requests, sessionVars>>

\* ------------------------------------------------------------- re-evaluation
\* the handler, while the table holds fewer than `cap` rows
submit_reevaluation_within(cap, st, sub) ==
  /\ Len(requests) < cap
  /\ requests' = Append(requests, [student_id |-> st, subject_id |-> sub,
                                   status |-> "pending"])
  /\ response' = "Submitted"
  /\ UNCHANGED <<subjects, enrollments, grades, sessionVars>>

submit_reevaluation(st, sub) == submit_reevaluation_within(MaxRequests, st, sub)

\* req.status = data['status']
Decided(req, status) == [req EXCEPT !.status = status]

\* the status stored, the Grade left as it is
ApproveOutcomeStatusOnly(reqs, grd, request_id, status) ==
  IF request_id \notin DOMAIN reqs
    THEN [response |-> "RequestNotFound", requests |-> reqs, grades |-> grd]
  ELSE [response |-> "Processed",
        requests |-> [reqs EXCEPT ![request_id] = Decided(reqs[request_id], status)],
        grades |-> grd]

ApproveOutcome(reqs, grd, request_id, status) ==
  IF request_id \notin DOMAIN reqs
    THEN [response |-> "RequestNotFound", requests |-> reqs, grades |-> grd]
  ELSE LET req == Decided(reqs[request_id], status)
           grade == FirstGrade(grd, req.student_id, req.subject_id)
       IN  [response |-> "Processed",
            requests |-> [reqs EXCEPT ![request_id] = req],
            grades |-> IF req.status = "approved" /\ grade # NoRow
                         THEN ReplaceRow(grd, grade,
                                [grade EXCEPT !.reevaluation_allowed = TRUE])
                       ELSE grd]

approve_reevaluation(request_id, status) ==
  LET out == ApproveOutcome(requests, grades, request_id, status)
  IN  /\ requests' = out.requests
      /\ grades' = out.grades
      /\ response' = out.response
      /\ UNCHANGED <<subjects, enrollments, sessionVars>>

\* ------------------------------------------------------------- specifications
\* the subject_ids lists of the enroll requests, the empty one among them
SubjectIdLists ==
  UNION {[1..n -> SubjectIdInputs] : n \in 0..MaxSubjectIds}

\* the ids of the decide requests, one of them of no row
RequestIds == 1..(MaxRequests + 1)

Init ==
  /\ subjects = Catalog
  /\ enrollments = EmptyBag
  /\ grades = EmptyBag
  /\ requests = << >>
  /\ response = "none"
  /\ pc = [w \in Sessions |-> "idle"]
  /\ to_create = [w \in Sessions |-> << >>]
  /\ grade_write = [w \in Sessions |-> NoWrite]

\* every request handled to its end before the next one starts
Next ==
  \/ \E st \in Students, subject_ids \in SubjectIdLists : enroll_subject(st, subject_ids)
  \/ \E f \in Faculty, st \in Students, sub \in SubjectIds, marks \in Marks :
        add_grade(f, st, sub, marks)
  \/ \E f \in Faculty, sub \in SubjectIds : finalize_grades(f, sub)
  \/ \E p \in ReevaluationInputs : submit_reevaluation(p[1], p[2])
  \/ \E request_id \in RequestIds, status \in StatusInputs :
        approve_reevaluation(request_id, status)

Spec == Init /\ [][Next]_vars

\* the enrollment engine alone: enroll reads and writes only the subjects and
\* enrollments tables, and no other handler writes either
EnrollNext ==
  \E st \in Students, subject_ids \in SubjectIdLists : enroll_subject(st, subject_ids)

EnrollSpec == Init /\ [][EnrollNext]_vars

\* enroll requests handled by two threads, interleaved at the commits
ConcEnrollNext ==
  \/ \E w \in Sessions, st \in Students, subject_ids \in SubjectIdLists :
        enroll_begin(w, st, subject_ids)
  \/ \E w \in Sessions : enroll_commit(w)

ConcEnrollSpec == Init /\ [][ConcEnrollNext]_vars

\* the enrollments after s1 enrolled in subjects 1 and 2 and s2 in subject 3
ConcGradeInit ==
  /\ subjects = Catalog
  /\ enrollments =
       EnrollOutcome(Catalog,
          EnrollOutcome(Catalog, EmptyBag, "s1", <<1, 2>>).enrollments,
          "s2", <<3>>).enrollments
  /\ grades = EmptyBag
  /\ requests = << >>
  /\ response = "none"
  /\ pc = [w \in Sessions |-> "idle"]
  /\ to_create = [w \in Sessions |-> << >>]
  /\ grade_write = [w \in Sessions |-> NoWrite]

\* grading requests handled by two threads, interleaved at the commits
ConcGradeNext ==
  \/ \E w \in Sessions, f \in Faculty, st \in Students, sub \in SubjectIds, marks \in Marks :
        grade_begin(w, f, st, sub, marks)
  \/ \E w \in Sessions : grade_commit(w)
  \/ \E f \in Faculty, sub \in SubjectIds : finalize_grades(f, sub)

ConcGradeSpec == ConcGradeInit /\ [][ConcGradeNext]_vars

\* grade edits handled by two threads, interleaved at the commits, with marks
\* that move within a band and across a band boundary
ConcEditNext ==
  \/ \E w \in Sessions, f \in Faculty, st \in Students, sub \in SubjectIds, marks \in EditMarks :
        grade_begin(w, f, st, sub, marks)
  \/ \E w \in Sessions : grade_commit(w)

ConcEditSpec == ConcGradeInit /\ [][ConcEditNext]_vars

\* the grade lifecycle and the re-evaluation workflow over fixed enrollments,
\* every request handled to its end before the next one starts; the requests
\* table may hold one row more than in Spec, so that a pair can have a second
\* request
GradingRequestIds == 1..(MaxRequests + 2)

GradingNext ==
  \/ \E f \in Faculty, st \in Students, sub \in SubjectIds, marks \in Marks :
        add_grade(f, st, sub, marks)
  \/ \E f \in Faculty, sub \in SubjectIds : finalize_grades(f, sub)
  \/ \E p \in ReevaluationInputs : submit_reevaluation_within(MaxRequests + 1, p[1], p[2])
  \/ \E request_id \in GradingRequestIds, status \in StatusInputs :
        approve_reevaluation(request_id, status)

GradingSpec == ConcGradeInit /\ [][GradingNext]_vars

\* ------------------------------------------------------------- claims: vocabulary
RECURSIVE CreditsOfRows(_, _)
CreditsOfRows(enr, rows) ==
  IF rows = {} THEN 0
  ELSE LET e == CHOOSE x \in rows : TRUE
       IN CopiesIn(e, enr) * Catalog[e.subject_id].credits + CreditsOfRows(enr, rows \ {e})

\* credits of the subjects a student is enrolled in, one term per row
EnrolledCredits(enr, st) == CreditsOfRows(enr, {e \in BagToSet(enr) : e.student_id = st})

RECURSIVE CreditsOfSubjects(_)
CreditsOfSubjects(ids) ==
  IF ids = {} THEN 0
  ELSE LET i == CHOOSE x \in ids : TRUE
       IN Catalog[i].credits + CreditsOfSubjects(ids \ {i})

EnrolledIn(st) == {i \in SubjectIds : \E e \in BagToSet(enrollments) :
                      e.student_id = st /\ e.subject_id = i}

\* the listed subjects the student is not enrolled in
NewIn(st, ids) == (Range(ids) \cap SubjectIds) \ EnrolledIn(st)

\* existing plus new credits of a request
CombinedCredits(st, ids) == EnrolledCredits(enrollments, st) + CreditsOfSubjects(NewIn(st, ids))

AllKnown(ids) == ids # << >> /\ Range(ids) \subseteq SubjectIds

\* the request passes the handler's lookup: every id known, none listed twice
Resolves(ids) == AllKnown(ids) /\ Cardinality(Range(ids)) = Len(ids)

\* (a) a new subject in the slot of an enrollment, (b) two new subjects in one slot
SlotConflict(st, ids) ==
  \/ \E n \in NewIn(st, ids), x \in EnrolledIn(st) : Catalog[n].slot = Catalog[x].slot
  \/ \E n, m \in NewIn(st, ids) : n # m /\ Catalog[n].slot = Catalog[m].slot

RowsOfPair(enr, st, sub) ==
  CopiesIn([student_id |-> st, subject_id |-> sub, faculty_id |-> Catalog[sub].faculty_id], enr)

NoDuplicateEnrollment(enr) ==
  /\ \A e \in BagToSet(enr) : CopiesIn(e, enr) = 1
  /\ \A e1, e2 \in BagToSet(enr) :
        e1.student_id = e2.student_id /\ e1.subject_id = e2.subject_id => e1 = e2

NoDuplicateGrade(grd) ==
  /\ \A g \in BagToSet(grd) : CopiesIn(g, grd) = 1
  /\ \A g1, g2 \in BagToSet(grd) :
        g1.student_id = g2.student_id /\ g1.subject_id = g2.subject_id => g1 = g2

NoSharedSlot(enr, st) ==
  \A e1, e2 \in BagToSet(enr) :
     e1.student_id = st /\ e2.student_id = st /\ e1.subject_id # e2.subject_id
       => Catalog[e1.subject_id].slot # Catalog[e2.subject_id].slot

EnrollFailures == {"BadRequest", "NotFound", "CreditLimitExceeded", "SlotClash", "ConflictError"}

\* ------------------------------------------------------------- C1

\* C1: with enroll requests handled one after another, no student ever holds
\* more than 27 credits; a request that resolves and whose existing plus new
\* credits are 28 or more fails with CreditLimitExceeded and writes nothing,
\* one whose total is at most 27 never fails with CreditLimitExceeded, and it
\* succeeds, leaving the student at exactly that total (27 included), unless
\* its slots clash.
C1_CreditCap ==
  /\ \A st \in Students : EnrolledCredits(enrollments, st) <= 27
  /\ \A st \in Students, ids \in SubjectIdLists :
       Resolves(ids) =>
         LET out == EnrollOutcome(subjects, enrollments, st, ids)
             total == CombinedCredits(st, ids)
         IN  /\ total >= 28 => /\ out.response = "CreditLimitExceeded"
                               /\ out.enrollments = enrollments
             /\ total <= 27 => out.response # "CreditLimitExceeded"
             /\ (total <= 27 /\ ~SlotConflict(st, ids)) =>
                   /\ out.response = "Enrolled"
                   /\ EnrolledCredits(out.enrollments, st) = total

\* a request brought a student to exactly 27 credits and succeeded, and the
\* next subject would take the student to 28 or more
C1_Witness ==
  /\ response = "Enrolled"
  /\ \E st \in Students :
        /\ EnrolledCredits(enrollments, st) = 27
        /\ \E i \in SubjectIds : CombinedCredits(st, <<i>>) >= 28

C3_RepeatedSubjectIsNoOp ==
  /\ NoDuplicateEnrollment(enrollments)
  /\ \A st \in Students, ids \in SubjectIdLists :
       (AllKnown(ids) /\ CombinedCredits(st, ids) <= 27 /\ ~SlotConflict(st, ids)) =>
         LET out == EnrollOutcome(subjects, enrollments, st, ids)
         IN  /\ out.response = "Enrolled"
             /\ NoDuplicateEnrollment(out.enrollments)
             /\ \A i \in EnrolledIn(st) :
                   RowsOfPair(out.enrollments, st, i) = RowsOfPair(enrollments, st, i)

\* ------------------------------------------------------------- C4
\* C4: an enroll request that fails, whatever the kind (BadRequest, NotFound,
\* CreditLimitExceeded, SlotClash, or ConflictError at the commit), writes no
\* Enrollment row: the step that answers with the failure leaves the table as
\* it is, and so does the part of the handler before its commit.
C4_FailedEnrollWritesNothing ==
  [][ /\ response' \in EnrollFailures => enrollments' = enrollments
      /\ \A w \in Sessions :
           (pc[w] = "idle" /\ pc'[w] = "enroll_commit") => enrollments' = enrollments
    ]_vars

\* a commit was refused while rows of other requests are in the table
C4_Witness == response = "ConflictError" /\ enrollments # EmptyBag

\* ------------------------------------------------------------- C5
\* some row the session is about to insert is in the table already
Raced(w) ==
  \E k \in DOMAIN to_create[w] : ~UniqueEnrollment(enrollments, to_create[w][k])

\* C5: when a session commits an enroll batch of which another request has
\* committed a row since the session's pre-check, the store refuses the commit,
\* the caller gets ConflictError, no row of the batch is persisted, and no
\* state holds two Enrollment rows for one (student, subject).
C5_RaceRejected ==
  [][ /\ \A w \in Sessions :
           (pc[w] = "enroll_commit" /\ pc'[w] = "idle" /\ Raced(w)) =>
              /\ response' = "ConflictError"
              /\ enrollments' = enrollments
      /\ NoDuplicateEnrollment(enrollments')
    ]_vars

\* the second of two racing requests was refused, both sessions are done and
\* the rows of the first are in the table, once each
C5_Witness ==
  /\ response = "ConflictError"
  /\ \A w \in Sessions : pc[w] = "idle"
  /\ \E st \in Students : EnrolledIn(st) # {}
  /\ NoDuplicateEnrollment(enrollments)

\* ------------------------------------------------------------- C6
\* C6: when a session commits the insert of a Grade for a (student, subject)
\* for which another request has committed a Grade since the session looked,
\* the store refuses the write and the caller gets ConflictError; the race
\* never ends in two Grade rows for the pair nor in an unhandled failure.
C6_GradeRaceConflictError ==
  [][ /\ \A w \in Sessions :
           ( /\ pc[w] = "grade_commit" /\ pc'[w] = "idle"
             /\ grade_write[w].kind = "insert"
             /\ GradeRows(grades, grade_write[w].student_id, grade_write[w].subject_id) # {} ) =>
              /\ response' = "ConflictError"
              /\ grades' = grades
      /\ response' # "InternalServerError"
      /\ NoDuplicateGrade(grades')
    ]_vars

\* ------------------------------------------------------------- C7
\* an Enrollment row binds the student and the subject to this faculty
Authorized(f, st, sub) ==
  CopiesIn([student_id |-> st, subject_id |-> sub, faculty_id |-> f], enrollments) > 0

GradesFor(grd, st, sub) == {g \in BagToSet(grd) : g.student_id = st /\ g.subject_id = sub}

OtherGradesKept(before, after, st, sub) ==
  \A g \in BagToSet(before) \cup BagToSet(after) :
     ~(g.student_id = st /\ g.subject_id = sub) => CopiesIn(g, after) = CopiesIn(g, before)

\* C7: a recordOrUpdateGrade call by the faculty of the enrollment on a Grade
\* with is_final and without reevaluation_allowed fails with GradeLocked and
\* changes no Grade; in the three other cases (no Grade yet, not final, final
\* with reevaluation_allowed) it succeeds and leaves one Grade for the pair,
\* holding the new marks, with the flags it had (both false on a new Grade)
\* and every other Grade as it was.
C7_GradeLocked ==
  \A f \in Faculty, st \in Students, sub \in SubjectIds, marks \in Marks :
     Authorized(f, st, sub) =>
       LET old == GradesFor(grades, st, sub)
           out == GradeOutcome(enrollments, grades, f, st, sub, marks)
           new == GradesFor(out.grades, st, sub)
       IN  IF \E g \in old : g.is_final /\ ~g.reevaluation_allowed
             THEN out.response = "GradeLocked" /\ out.grades = grades
           ELSE /\ out.response = "GradeAdded"
                /\ Cardinality(new) = 1
                /\ \A g \in new :
                      /\ CopiesIn(g, out.grades) = 1
                      /\ g.marks = marks
                      /\ IF old = {} THEN ~g.is_final /\ ~g.reevaluation_allowed
                         ELSE \A o \in old : /\ g.is_final = o.is_final
                                             /\ g.reevaluation_allowed = o.reevaluation_allowed
                /\ OtherGradesKept(grades, out.grades, st, sub)

\* an edit of a finalized Grade was refused
C7_Witness ==
  /\ response = "GradeLocked"
  /\ \E g \in BagToSet(grades) : g.is_final /\ ~g.reevaluation_allowed

\* ------------------------------------------------------------- C8
\* C8: recordOrUpdateGrade fails with Forbidden and changes no Grade unless an
\* Enrollment row binds exactly this student, subject and calling faculty, also
\* when the student is enrolled in the subject under another faculty; every
\* Grade row has an Enrollment row for its student and subject.
C8_ForbiddenUnlessOwnEnrollment ==
  /\ \A g \in BagToSet(grades) : \E e \in BagToSet(enrollments) :
        e.student_id = g.student_id /\ e.subject_id = g.subject_id
  /\ \A f \in Faculty, st \in Students, sub \in SubjectIds, marks \in Marks :
        ~Authorized(f, st, sub) =>
          LET out == GradeOutcome(enrollments, grades, f, st, sub, marks)
          IN  out.response = "Forbidden" /\ out.grades = grades

\* a grading call was refused while a student is enrolled in a subject under a
\* faculty, another faculty exists, and the pair has no Grade
C8_Witness ==
  /\ response = "Forbidden"
  /\ \E e \in BagToSet(enrollments), f \in Faculty :
        /\ e.faculty_id \in Faculty
        /\ f # e.faculty_id
        /\ GradesFor(grades, e.student_id, e.subject_id) = {}

\* ------------------------------------------------------------- C9
\* C9: finalize of a subject, by any faculty user, whether the subject is theirs
\* or not, leaves every Grade row of the subject with is_final true and
\* reevaluation_allowed false in one step, and leaves the rows of the other
\* subjects, the number of rows, and the marks and letter of every row as
\* they were.
C9_FinalizeFrame ==
  \A sub \in SubjectIds :
     LET out == FinalizeOutcome(grades, sub)
     IN  /\ out.response = "Finalized"
         /\ BagCardinality(out.grades) = BagCardinality(grades)
         /\ \A h \in BagToSet(out.grades) :
               h.subject_id = sub => h.is_final /\ ~h.reevaluation_allowed
         /\ \A g \in BagToSet(grades) :
               IF g.subject_id = sub
                 THEN BagIn([student_id |-> g.student_id, subject_id |-> g.subject_id,
                             marks |-> g.marks, grade |-> g.grade,
                             is_final |-> TRUE, reevaluation_allowed |-> FALSE], out.grades)
               ELSE CopiesIn(g, out.grades) = CopiesIn(g, grades)
         /\ \A h \in BagToSet(out.grades) :
               h.subject_id # sub => CopiesIn(h, out.grades) = CopiesIn(h, grades)

\* a finalize was answered with the Grades of two students in one subject final
\* and locked
C9_Witness ==
  /\ response = "Finalized"
  /\ \E g1, g2 \in BagToSet(grades) :
        /\ g1.subject_id = g2.subject_id
        /\ g1.student_id # g2.student_id
        /\ g1.is_final /\ ~g1.reevaluation_allowed
        /\ g2.is_final /\ ~g2.reevaluation_allowed

\* ------------------------------------------------------------- C10
\* C10: a re-evaluation request is created pending, its status is only ever
\* pending, approved or denied, and once it is approved or denied no later step
\* changes it.
C10_StatusTerminal ==
  [][ /\ \A i \in DOMAIN requests :
           /\ i \in DOMAIN requests'
           /\ requests[i].status \in {"approved", "denied"} =>
                 requests'[i].status = requests[i].status
      /\ \A i \in DOMAIN requests' :
           /\ requests'[i].status \in {"pending", "approved", "denied"}
           /\ i \notin DOMAIN requests => requests'[i].status = "pending"
    ]_vars

\* ------------------------------------------------------------- C11
\* the row with its reevaluation_allowed set
Unlocked(g) ==
  [student_id |-> g.student_id, subject_id |-> g.subject_id, marks |-> g.marks,
   grade |-> g.grade, is_final |-> g.is_final, reevaluation_allowed |-> TRUE]

\* some row of the pair has reevaluation_allowed in `after` and had not in `before`
NewlyUnlocked(before, after, st, sub) ==
  /\ \E g \in GradesFor(before, st, sub) : ~g.reevaluation_allowed
  /\ \E h \in GradesFor(after, st, sub) : h.reevaluation_allowed

\* C11: a decide call that approves a request whose (student, subject) has a
\* Grade answers with the request approved and that Grade's
\* reevaluation_allowed true in one result, its marks, letter and is_final and
\* every other Grade as they were; a decide that denies, and a decide on an
\* unknown request id (NotFound), change no Grade. In every step of a
\* behaviour the two changes come together: a step that turns a request to
\* approved leaves no Grade of its pair without reevaluation_allowed, and a
\* step in which a Grade gains reevaluation_allowed is a decide that leaves a
\* request of that pair approved.
C11_ApprovalUnlocksAtomically ==
  /\ [](\A request_id \in GradingRequestIds :
          LET approved == ApproveOutcome(requests, grades, request_id, "approved")
              denied == ApproveOutcome(requests, grades, request_id, "denied")
          IN  IF request_id \notin DOMAIN requests
                THEN /\ approved.response = "RequestNotFound"
                     /\ denied.response = "RequestNotFound"
                     /\ approved.grades = grades /\ denied.grades = grades
                     /\ approved.requests = requests /\ denied.requests = requests
              ELSE LET st == requests[request_id].student_id
                       sub == requests[request_id].subject_id
                   IN  /\ approved.response = "Processed"
                       /\ approved.requests[request_id].status = "approved"
                       /\ BagCardinality(approved.grades) = BagCardinality(grades)
                       /\ \A g \in GradesFor(grades, st, sub) :
                             BagIn(Unlocked(g), approved.grades)
                       /\ \A h \in GradesFor(approved.grades, st, sub) :
                             h.reevaluation_allowed
                       /\ OtherGradesKept(grades, approved.grades, st, sub)
                       /\ denied.response = "Processed"
                       /\ denied.requests[request_id].status = "denied"
                       /\ denied.grades = grades)
  /\ [][ /\ \A i \in DOMAIN requests :
              ( /\ i \in DOMAIN requests'
                /\ requests[i].status # "approved"
                /\ requests'[i].status = "approved" ) =>
                 \A h \in GradesFor(grades', requests[i].student_id, requests[i].subject_id) :
                    h.reevaluation_allowed
         /\ \A st \in Students, sub \in SubjectIds :
              NewlyUnlocked(grades, grades', st, sub) =>
                 /\ response' = "Processed"
                 /\ \E i \in DOMAIN requests' :
                       /\ requests'[i].student_id = st
                       /\ requests'[i].subject_id = sub
                       /\ requests'[i].status = "approved"
       ]_vars

\* a decide answered with a request approved, the finalized Grade of its pair
\* unlocked, and a finalized Grade of another pair still locked
C11_Witness ==
  /\ response = "Processed"
  /\ \E i \in DOMAIN requests :
        /\ requests[i].status = "approved"
        /\ \E g \in GradesFor(grades, requests[i].student_id, requests[i].subject_id) :
              g.is_final /\ g.reevaluation_allowed
        /\ \E o \in BagToSet(grades) :
              /\ o.student_id # requests[i].student_id
              /\ o.is_final /\ ~o.reevaluation_allowed

\* ------------------------------------------------------------- C12
\* the requests whose (student, subject) has no Grade
RequestsWithoutGrade ==
  {i \in DOMAIN requests :
     GradesFor(grades, requests[i].student_id, requests[i].subject_id) = {}}

\* approve request i, then let faculty f create the Grade with marks m1
CreatedAfterApproval(i, f, m1) ==
  GradeOutcome(enrollments, ApproveOutcome(requests, grades, i, "approved").grades,
               f, requests[i].student_id, requests[i].subject_id, m1)

\* ... then finalize the subject, then let f edit the Grade to marks m2
EditAfterFinalize(i, f, m1, m2) ==
  GradeOutcome(enrollments,
               FinalizeOutcome(CreatedAfterApproval(i, f, m1).grades,
                               requests[i].subject_id).grades,
               f, requests[i].student_id, requests[i].subject_id, m2)

\* C12 as claimed: a decide that approves a request whose (student, subject)
\* has no Grade succeeds and creates no Grade, and a Grade created afterwards
\* for the pair and then finalized is still edited by its faculty with success,
\* the new marks stored, without a further approval.
C12_ApprovalUnlocksFutureEdit ==
  \A i \in RequestsWithoutGrade, f \in Faculty, m1 \in Marks, m2 \in Marks :
     Authorized(f, requests[i].student_id, requests[i].subject_id) =>
       /\ ApproveOutcome(requests, grades, i, "approved").response = "Processed"
       /\ ApproveOutcome(requests, grades, i, "approved").grades = grades
       /\ EditAfterFinalize(i, f, m1, m2).response = "GradeAdded"
       /\ \A g \in GradesFor(EditAfterFinalize(i, f, m1, m2).grades,
                              requests[i].student_id, requests[i].subject_id) :
             g.marks = m2

\* C12 amended: a decide that approves a request whose (student, subject) has
\* no Grade succeeds, stores the status and neither creates nor changes a
\* Grade; the approval is not carried to a Grade created afterwards: that
\* Grade is created not final and without reevaluation_allowed, its faculty
\* can edit it while it is not final, and once the subject is finalized the
\* edit fails with GradeLocked and changes nothing, until a further approved
\* decision is taken while the Grade exists.
C12_ApprovalWithoutGradeIsNotKept ==
  \A i \in RequestsWithoutGrade, f \in Faculty, m1 \in Marks, m2 \in Marks :
     Authorized(f, requests[i].student_id, requests[i].subject_id) =>
       LET st == requests[i].student_id
           sub == requests[i].subject_id
           decided == ApproveOutcome(requests, grades, i, "approved")
           created == CreatedAfterApproval(i, f, m1)
           edited == GradeOutcome(enrollments, created.grades, f, st, sub, m2)
           final == FinalizeOutcome(created.grades, sub)
           locked == EditAfterFinalize(i, f, m1, m2)
           again == ApproveOutcome(decided.requests, final.grades, i, "approved")
           unlocked == GradeOutcome(enrollments, again.grades, f, st, sub, m2)
       IN  /\ decided.response = "Processed"
           /\ decided.requests[i].status = "approved"
           /\ decided.grades = grades
           /\ created.response = "GradeAdded"
           /\ Cardinality(GradesFor(created.grades, st, sub)) = 1
           /\ \A g \in GradesFor(created.grades, st, sub) :
                 g.marks = m1 /\ ~g.is_final /\ ~g.reevaluation_allowed
           /\ edited.response = "GradeAdded"
           /\ locked.response = "GradeLocked"
           /\ locked.grades = final.grades
           /\ \A g \in GradesFor(locked.grades, st, sub) : g.marks = m1
           /\ unlocked.response = "GradeAdded"
           /\ \A g \in GradesFor(unlocked.grades, st, sub) : g.marks = m2

\* a decide approved a request whose pair has no Grade yet, and the student is
\* enrolled in the subject under a faculty who can create the Grade
C12_Witness ==
  /\ response = "Processed"
  /\ \E i \in RequestsWithoutGrade :
        /\ requests[i].status = "approved"
        /\ \E f \in Faculty :
              Authorized(f, requests[i].student_id, requests[i].subject_id)

\* ------------------------------------------------------------- C13
\* the finalized Grades inside a re-evaluation window
Reopened(grd) == {g \in BagToSet(grd) : g.is_final /\ g.reevaluation_allowed}

StillReopened(grd, g) ==
  /\ Cardinality(GradesFor(grd, g.student_id, g.subject_id)) = 1
  /\ \A h \in GradesFor(grd, g.student_id, g.subject_id) :
        h.is_final /\ h.reevaluation_allowed

\* C13: a finalized Grade whose reevaluation_allowed an approved decision has
\* set keeps the flag and is_final through every edit, which succeeds and
\* stores the new marks, and through every later decide call, whatever the
\* request and the status (approved, denied); a finalize of another subject
\* leaves it too, and a finalize of its subject clears the flag. In every
\* step of a behaviour, a Grade inside the window that leaves it does so in a
\* finalize, which leaves it final and locked.
C13_UnlockLastsUntilFinalize ==
  /\ [](\A g \in Reopened(grades) :
          /\ \A f \in Faculty, marks \in Marks :
                Authorized(f, g.student_id, g.subject_id) =>
                  LET out == GradeOutcome(enrollments, grades, f,
                                          g.student_id, g.subject_id, marks)
                  IN  /\ out.response = "GradeAdded"
                      /\ StillReopened(out.grades, g)
                      /\ \A h \in GradesFor(out.grades, g.student_id, g.subject_id) :
                            h.marks = marks
          /\ \A request_id \in GradingRequestIds, status \in StatusInputs :
                StillReopened(ApproveOutcome(requests, grades, request_id, status).grades, g)
          /\ \A sub \in SubjectIds :
                IF sub = g.subject_id
                  THEN \A h \in GradesFor(FinalizeOutcome(grades, sub).grades,
                                          g.student_id, g.subject_id) :
                          h.is_final /\ ~h.reevaluation_allowed
                ELSE StillReopened(FinalizeOutcome(grades, sub).grades, g))
  /\ [][ \A g \in Reopened(grades) :
            \/ StillReopened(grades', g)
            \/ /\ response' = "Finalized"
               /\ \A h \in GradesFor(grades', g.student_id, g.subject_id) :
                     h.is_final /\ ~h.reevaluation_allowed /\ h.marks = g.marks
        ]_vars

\* a decide was answered while the Grade of the pair is finalized and inside
\* the window and no request of the pair is approved any more: the approval
\* that opened the window was followed by a decision that is not an approval
C13_Witness ==
  /\ response = "Processed"
  /\ \E g \in Reopened(grades) :
        /\ \E i \in DOMAIN requests :
              /\ requests[i].student_id = g.student_id
              /\ requests[i].subject_id = g.subject_id
              /\ requests[i].status = "denied"
        /\ \A i \in DOMAIN requests : requests[i].status # "approved"

\* ------------------------------------------------------------- C14
\* the bands of the grading scale: lower bound and letter
Bands ==
  << <<90, "A+">>, <<80, "A">>, <<70, "B+">>, <<60, "B">>, <<50, "C">>,
     <<40, "D">>, <<0, "F">> >>

\* the bands whose range holds the marks: from the lower bound of the band up
\* to the lower bound of the band above
BandsOf(marks) ==
  {k \in DOMAIN Bands :
     /\ marks >= Bands[k][1]
     /\ k > 1 => marks < Bands[k - 1][1]}

Band(marks) == Bands[CHOOSE k \in BandsOf(marks) : TRUE][2]

\* the marks and letter of every row, with the number of rows holding them
MarksAndLetters(grd) ==
  [p \in {<<g.student_id, g.subject_id, g.marks, g.grade>> : g \in BagToSet(grd)} |->
     Cardinality({g \in BagToSet(grd) :
                    <<g.student_id, g.subject_id, g.marks, g.grade>> = p})]

\* C14: every value of marks in 0..100 lies in exactly one band and
\* calculate_grade gives the letter of that band; in every reachable state the
\* letter stored in each Grade is the band of the marks stored in it; every
\* successful recordOrUpdateGrade leaves the Grade of the pair with the letter
\* of the marks sent; finalize and decide change no marks and no letter.
C14_LetterIsBandOfMarks ==
  /\ \A m \in 0..100 : Cardinality(BandsOf(m)) = 1 /\ calculate_grade(m) = Band(m)
  /\ \A g \in BagToSet(grades) : g.grade = Band(g.marks)
  /\ \A f \in Faculty, st \in Students, sub \in SubjectIds, marks \in EditMarks :
        LET out == GradeOutcome(enrollments, grades, f, st, sub, marks)
        IN  out.response = "GradeAdded" =>
              \A g \in GradesFor(out.grades, st, sub) :
                 g.marks = marks /\ g.grade = Band(marks)
  /\ \A sub \in SubjectIds :
        MarksAndLetters(FinalizeOutcome(grades, sub).grades) = MarksAndLetters(grades)
  /\ \A request_id \in GradingRequestIds, status \in StatusInputs :
        MarksAndLetters(ApproveOutcome(requests, grades, request_id, status).grades)
          = MarksAndLetters(grades)

\* ------------------------------------------------------------- C15
\* C15: with enroll requests of one student handled by two threads, each
\* reading the student's enrollments before the other commits, every state
\* still has each student at 27 credits or fewer and with no two enrolled
\* subjects in one slot.
C15_EnrollInvariantsUnderInterleaving ==
  \A st \in Students :
     /\ EnrolledCredits(enrollments, st) <= 27
     /\ NoSharedSlot(enrollments, st)

\* ------------------------------------------------------------- C16
\* C16: in every interleaving of grade edits and finalize, a step taken while
\* a Grade is final and without reevaluation_allowed leaves the marks and the
\* letter of that Grade as they are; so an edit that read the Grade before a
\* finalize of its subject committed does not change it when it commits after.
C16_NoEditPastFinalize ==
  [][ \A g \in BagToSet(grades) :
        (g.is_final /\ ~g.reevaluation_allowed) =>
           \A h \in GradesFor(grades', g.student_id, g.subject_id) :
              h.marks = g.marks /\ h.grade = g.grade
    ]_vars

====
